---------------------------- MODULE Spec2Model ----------------------------
(* A model of src/app.js: a small nostr client.  One relay connection    *)
(* (WebSocket) at a time is held in `ws`; the handlers installed on a     *)
(* transport stay installed after `ws` is replaced, so every transport    *)
(* ever created can still run its onopen/onerror/onclose/onmessage.       *)
(*                                                                        *)
(* Strings are sequences of one-character strings, so that trim, split,   *)
(* startsWith and slice are computed and not assumed.                     *)
EXTENDS Integers, Sequences, FiniteSets, TLC

VARIABLES
    ws,            \* app.js:23  the held transport (Null or a transport id)
    isOpen,        \* app.js:24
    currentSubId,  \* app.js:25  Null or a subscription id
    conn,          \* readyState of every transport created so far
    sent,          \* per transport: frames ws.send() accepted, in order
    list,          \* els.list: the rendered article records, in order
    status,        \* els.status: the last setStatus(text, cls)
    uiConn,        \* the last uiConnected(connected)
    lifecycle,     \* the last connection-lifecycle status reported
    failure,       \* the last handler ended with an uncaught exception
    lastEvt        \* argument of the most recent renderEvent call

vars == << ws, isOpen, currentSubId, conn, sent, list, status,
           uiConn, lifecycle, failure, lastEvt >>

-----------------------------------------------------------------------------
(* Bounds of the model *)

MaxConn == 2
MaxReq == 2
MaxList == 2
MaxSubId == 2
MaxLen == 4

Null == 0
Conns == 1..MaxConn
SubIds == 1..MaxSubId

-----------------------------------------------------------------------------
(* JavaScript strings: sequences of one-character strings *)

NL == "\n"

\* String.prototype.trim strips white space and line terminators.
IsWs(c) == c \in {" ", NL, "\t", "\r"}

RECURSIVE TrimStart(_)
TrimStart(s) ==
    IF s # << >> /\ IsWs(Head(s)) THEN TrimStart(Tail(s)) ELSE s

RECURSIVE TrimEnd(_)
TrimEnd(s) ==
    IF s # << >> /\ IsWs(s[Len(s)]) THEN TrimEnd(SubSeq(s, 1, Len(s) - 1)) ELSE s

Trim(s) == TrimEnd(TrimStart(s))

\* s.split('\n'): the lines of s, at least one.
RECURSIVE SplitFrom(_, _)
SplitFrom(s, cur) ==
    IF s = << >> THEN << cur >>
    ELSE IF Head(s) = NL THEN << cur >> \o SplitFrom(Tail(s), << >>)
    ELSE SplitFrom(Tail(s), Append(cur, Head(s)))

SplitLines(s) == SplitFrom(s, << >>)

StartsWith(s, p) == Len(p) <= Len(s) /\ SubSeq(s, 1, Len(p)) = p

\* s.slice(n) for 0 <= n
SliceFrom(s, n) == SubSeq(s, n + 1, Len(s))

\* s.slice(0, n)
SliceTo(s, n) == SubSeq(s, 1, IF n < Len(s) THEN n ELSE Len(s))

\* All strings over alphabet A of length at most n.
RECURSIVE StringsUpTo(_, _)
StringsUpTo(A, n) ==
    IF n = 0 THEN { << >> }
    ELSE LET shorter == StringsUpTo(A, n - 1)
         IN  shorter \cup { Append(s, c) : s \in shorter, c \in A }

-----------------------------------------------------------------------------
(* Status line: setStatus(text, cls).  A text is a sequence of strings:   *)
(* the literal part of a template is one element, an interpolated string  *)
(* contributes its characters.                                            *)

Status(text, cls) == [text |-> text, cls |-> cls]

StConnecting == Status(<< "connecting" >>, "")
StConnected == Status(<< "connected" >>, "ok")
StDisconnected == Status(<< "disconnected" >>, "")
StEnterUrl == Status(<< "please enter a relay url (wss://...)" >>, "warn")
StInvalidUrl == Status(<< "invalid websocket url: " >>, "err")
StWsError == Status(<< "websocket error (see console)" >>, "err")
StNotConnected == Status(<< "not connected" >>, "warn")

-----------------------------------------------------------------------------
(* The transport: the browser's WebSocket *)

\* new WebSocket(url) throws SyntaxError unless url parses with scheme ws/wss.
\* Relay addresses are abstracted to the strings below; only "w" is accepted.
Urls == { << >>, << " " >>, << "w" >>, << " ", "w", " " >>, << "x" >> }

WebSocketThrows(url) == url # << "w" >>

\* transports created so far are 1..NConn
NConn == Cardinality({ t \in Conns : conn[t] # "NONE" })

\* ws.send(data) throws InvalidStateError while the transport is CONNECTING;
\* in every other readyState the call returns normally (once CLOSING or
\* CLOSED the browser discards the data).
SendThrows(t) == conn[t] = "CONNECTING"

\* ws.close(): CONNECTING and OPEN become CLOSING, the close notification
\* follows later; on CLOSING and CLOSED it does nothing.  It does not throw.
AfterClose(rs) == IF rs \in {"CONNECTING", "OPEN"} THEN "CLOSING" ELSE rs

-----------------------------------------------------------------------------
Init ==
    /\ ws = Null
    /\ isOpen = FALSE
    /\ currentSubId = Null
    /\ conn = [t \in Conns |-> "NONE"]
    /\ sent = [t \in Conns |-> << >>]
    /\ list = << >>
    /\ status = Status(<< >>, "")
    /\ uiConn = FALSE
    /\ lifecycle = "idle"
    /\ failure = FALSE
    /\ lastEvt = [none |-> TRUE]

\* connect is reached from the connect button, which uiConnected(true)
\* disables, and from Enter in the relay url field, which requires !isOpen.
ConnectReachable == ~uiConn \/ ~isOpen

ConnectUrl(value) == Trim(value)

\* a connect that forgets the held transport when the constructor throws
ConnectFailedWsCleared == Null

\* app.js:45-50: the constructor throws before `ws` is assigned
ConnectFailedWs == ws

Connect(value) ==
    /\ ConnectReachable
    /\ failure' = FALSE
    /\ LET url == ConnectUrl(value) IN
       IF url = << >> THEN
            /\ status' = StEnterUrl
            /\ UNCHANGED << ws, isOpen, currentSubId, conn, sent, list,
                            uiConn, lifecycle, lastEvt >>
       ELSE IF WebSocketThrows(url) THEN
            /\ status' = StInvalidUrl
            /\ ws' = ConnectFailedWs
            /\ UNCHANGED << isOpen, currentSubId, conn, sent, list,
                            uiConn, lifecycle, lastEvt >>
       ELSE /\ NConn < MaxConn
            /\ ws' = NConn + 1
            /\ conn' = [conn EXCEPT ![NConn + 1] = "CONNECTING"]
            /\ status' = StConnecting
            /\ uiConn' = FALSE
            /\ lifecycle' = "connecting"
            /\ UNCHANGED << isOpen, currentSubId, sent, list, lastEvt >>

-----------------------------------------------------------------------------
(* Transport notifications.  A handler belongs to the transport it was    *)
(* installed on (app.js:55-74) and assigns the shared session variables.  *)

\* ws.onopen, app.js:55-59
OnOpenIsOpen == TRUE

OnOpen(t) ==
    /\ conn[t] = "CONNECTING"
    /\ conn' = [conn EXCEPT ![t] = "OPEN"]
    /\ isOpen' = OnOpenIsOpen
    /\ status' = StConnected
    /\ uiConn' = TRUE
    /\ lifecycle' = "connected"
    /\ failure' = FALSE
    /\ UNCHANGED << ws, currentSubId, sent, list, lastEvt >>

\* ws.onerror, app.js:61-64.  The connection has failed: nothing is
\* delivered on it any more and its close notification is pending, which is
\* the transport state written "CLOSING" here.
OnError(t) ==
    /\ conn[t] \in {"CONNECTING", "OPEN", "CLOSING"}
    /\ conn' = [conn EXCEPT ![t] = "CLOSING"]
    /\ status' = StWsError
    /\ failure' = FALSE
    /\ UNCHANGED << ws, isOpen, currentSubId, sent, list, uiConn,
                    lifecycle, lastEvt >>

\* ws.onclose, app.js:66-70: after a clean close by the relay (OPEN), after
\* ws.close() or after a failure (CLOSING).
OnClose(t) ==
    /\ conn[t] \in {"OPEN", "CLOSING"}
    /\ conn' = [conn EXCEPT ![t] = "CLOSED"]
    /\ isOpen' = FALSE
    /\ status' = StDisconnected
    /\ uiConn' = FALSE
    /\ lifecycle' = "disconnected"
    /\ failure' = FALSE
    /\ UNCHANGED << ws, currentSubId, sent, list, lastEvt >>

-----------------------------------------------------------------------------
(* disconnect, app.js:77-94 *)

CloseFrame(id) == << "CLOSE", id >>

\* app.js:78
DisconnectGuard == ws # Null /\ isOpen

\* app.js:80-84: the CLOSE frame is written when a subscription is active;
\* a throwing send leaves the try block before ws.close().
DisconnectSendThrows == currentSubId # Null /\ SendThrows(ws)

DisconnectSent ==
    IF DisconnectGuard /\ currentSubId # Null /\ ~SendThrows(ws)
    THEN [sent EXCEPT ![ws] = Append(@, CloseFrame(currentSubId))]
    ELSE sent

\* app.js:85
DisconnectCloses == DisconnectGuard /\ ~DisconnectSendThrows

\* a disconnect that keeps the subscription id
DisconnectSubIdKept == currentSubId

\* app.js:90
DisconnectSubId == Null

\* app.js:91
DisconnectIsOpen == FALSE

Disconnect ==
    /\ sent' = DisconnectSent
    /\ IF DisconnectCloses
       THEN conn' = [conn EXCEPT ![ws] = AfterClose(@)]
       ELSE UNCHANGED conn
    /\ currentSubId' = DisconnectSubId
    /\ isOpen' = DisconnectIsOpen
    /\ uiConn' = FALSE
    /\ status' = StDisconnected
    /\ lifecycle' = "disconnected"
    /\ failure' = FALSE
    /\ UNCHANGED << ws, list, lastEvt >>

-----------------------------------------------------------------------------
(* submitQuery, app.js:159-200 *)

\* Number(text) for the texts a form field is given here, in tenths.
JsNaN == [nan |-> TRUE, tenths |-> 0]
JsNum(tenths) == [nan |-> FALSE, tenths |-> tenths]

FieldTexts == { "", "abc", "-1", "1.5", "0", "2" }

NumberOf(text) ==
    CASE text = ""    -> JsNum(0)
      [] text = "abc" -> JsNaN
      [] text = "-1"  -> JsNum(-10)
      [] text = "1.5" -> JsNum(15)
      [] text = "0"   -> JsNum(0)
      [] text = "2"   -> JsNum(20)

IsInteger(x) == ~x.nan /\ x.tenths % 10 = 0

\* the integer an integral number holds
IntOf(x) == x.tenths \div 10

\* `${n}` for an integer n >= 0
RECURSIVE Digits(_)
Digits(n) ==
    LET d == << "0", "1", "2", "3", "4", "5", "6", "7", "8", "9" >>[(n % 10) + 1]
    IN  IF n < 10 THEN << d >> ELSE Append(Digits(n \div 10), d)

TagTexts == { << >>, << " " >>, << "t" >>, << " ", "t", " " >> }

Form(k, l, n, v) == [kind |-> k, limit |-> l, tagName |-> n, tagValue |-> v]

\* The form contents tried with the whole session: every kind text but the
\* empty one with a valid limit, and every limit text with a valid kind.
Forms ==
    { Form(k, "2", << >>, << >>) : k \in FieldTexts \ {"", "0"} }
    \cup { Form("2", l, << >>, << >>) : l \in FieldTexts }

\* The form contents tried for the first request of a session: every pair
\* of kind and limit texts without a tag filter, and every pair of tag
\* texts with a valid kind and limit.
AllForms ==
    { Form(k, l, << >>, << >>) : k \in FieldTexts, l \in FieldTexts }
    \cup { Form("", "2", n, v) : n \in TagTexts, v \in TagTexts }

\* a guard that forgets the isOpen flag
NotConnectedNoFlag == ws = Null

\* app.js:161
NotConnected == ws = Null \/ ~isOpen

\* app.js:171
InvalidKind(kind) == ~IsInteger(kind) \/ kind.tenths < 0

\* app.js:175
InvalidLimit(limit) == ~IsInteger(limit) \/ limit.tenths < 10

KeyKinds == << "k", "i", "n", "d", "s" >>
KeyLimit == << "l", "i", "m", "i", "t" >>

\* obj[key] = value
SetProp(obj, key, value) ==
    [k \in DOMAIN obj \cup {key} |-> IF k = key THEN value ELSE obj[k]]

\* app.js:182-183
FormTagName(form) == Trim(form.tagName)
FormTagValue(form) == Trim(form.tagValue)

\* a tag filter added as soon as a tag name is given
HasTagNameOnly(form) == FormTagName(form) # << >>

\* app.js:186
HasTag(form) == FormTagName(form) # << >> /\ FormTagValue(form) # << >>

\* app.js:181-188
BuildFilter(form) ==
    LET base == [k \in {KeyKinds, KeyLimit} |->
                    IF k = KeyKinds THEN << IntOf(NumberOf(form.kind)) >>
                    ELSE IntOf(NumberOf(form.limit))]
    IN  IF HasTag(form)
        THEN SetProp(base, << "#" >> \o FormTagName(form), << FormTagValue(form) >>)
        ELSE base

\* app.js:193
ReqFrame(id, filter) == << "REQ", id, filter >>

StInvalidKind == Status(<< "invalid kind (must be an integer >= 0)" >>, "warn")
StInvalidLimit == Status(<< "invalid limit N" >>, "warn")
StSendFailed == Status(<< "send failed: " >>, "err")

\* app.js:196
StRequested(form) ==
    Status(<< "requested events (kind " >> \o Digits(IntOf(NumberOf(form.kind)))
           \o << ", limit " >> \o Digits(IntOf(NumberOf(form.limit)))
           \o (IF HasTag(form)
               THEN << ", #" >> \o FormTagName(form) \o << "=" >> \o FormTagValue(form)
               ELSE << >>)
           \o << ")..." >>, "")

IsReq(frame) == frame[1] = "REQ"

RECURSIVE CountReq(_)
CountReq(frames) ==
    IF frames = << >> THEN 0
    ELSE (IF IsReq(Head(frames)) THEN 1 ELSE 0) + CountReq(Tail(frames))

RECURSIVE SumOver(_, _)
SumOver(f, S) ==
    IF S = {} THEN 0
    ELSE LET x == CHOOSE x \in S : TRUE IN f[x] + SumOver(f, S \ {x})

\* REQ frames written so far, on all transports
TotalReq == SumOver([t \in Conns |-> CountReq(sent[t])], Conns)

\* app.js:191: a random id; nothing makes it differ from an earlier one.
NewSubId(id) == id

\* a subscribe that first writes CLOSE for the subscription it supersedes
SubmitSentClosingFirst(form, id) ==
    [sent EXCEPT ![ws] =
        (IF currentSubId # Null THEN Append(@, << "CLOSE", currentSubId >>) ELSE @)
        \o << ReqFrame(NewSubId(id), BuildFilter(form)) >>]

\* the frames on the held transport after ws.send(JSON.stringify(req))
SubmitSent(form, id) ==
    [sent EXCEPT ![ws] = Append(@, ReqFrame(NewSubId(id), BuildFilter(form)))]

SubmitQuery(form, id) ==
    /\ failure' = FALSE
    /\ IF NotConnected THEN
            /\ status' = StNotConnected
            /\ UNCHANGED << currentSubId, sent, list >>
       ELSE /\ list' = << >>
            /\ IF InvalidKind(NumberOf(form.kind)) THEN
                    /\ status' = StInvalidKind
                    /\ UNCHANGED << currentSubId, sent >>
               ELSE IF InvalidLimit(NumberOf(form.limit)) THEN
                    /\ status' = StInvalidLimit
                    /\ UNCHANGED << currentSubId, sent >>
               ELSE /\ currentSubId' = NewSubId(id)
                    /\ IF SendThrows(ws) THEN
                            /\ status' = StSendFailed
                            /\ UNCHANGED sent
                       ELSE /\ TotalReq < MaxReq
                            /\ sent' = SubmitSent(form, id)
                            /\ status' = StRequested(form)
    /\ UNCHANGED << ws, isOpen, conn, uiConn, lifecycle, lastEvt >>

-----------------------------------------------------------------------------
(* JSON values, as JSON.parse returns them *)

JNull == [t |-> "null"]
JUndef == [t |-> "undefined"]
JBool(b) == [t |-> "bool", b |-> b]
JNumber(n) == [t |-> "num", n |-> n]
JStr(s) == [t |-> "str", s |-> s]
JArr(a) == [t |-> "arr", a |-> a]
\* a plain object: a function from property names to values
JObj(o) == [t |-> "obj", o |-> o]
\* an event object; a property that is absent has has... = FALSE
JEvent(e) == [t |-> "event", e |-> e]
\* a subscription id string "sub-..." (app.js:191), by its index
JSub(id) == [t |-> "sub", id |-> id]

IsStr(v, s) == v.t = "str" /\ v.s = s

\* the property name of index i
IndexKey(i) == << "0", "1", "2", "3" >>[i + 1]

\* v[i] throws TypeError on null and undefined
IndexThrows(v) == v.t \in {"null", "undefined"}

\* v[i] for an index i >= 0
Index(v, i) ==
    CASE v.t = "arr" -> IF i < Len(v.a) THEN v.a[i + 1] ELSE JUndef
      [] v.t = "str" -> IF i < Len(v.s) THEN JStr(<< v.s[i + 1] >>) ELSE JUndef
      [] v.t = "obj" -> IF IndexKey(i) \in DOMAIN v.o THEN v.o[IndexKey(i)] ELSE JUndef
      [] OTHER -> JUndef

\* const [...] = v throws TypeError unless v is iterable
Iterable(v) == v.t \in {"arr", "str"}

\* !v is false
Truthy(v) ==
    CASE v.t \in {"null", "undefined"} -> FALSE
      [] v.t = "bool" -> v.b
      [] v.t = "num" -> v.n # 0
      [] v.t = "str" -> v.s # << >>
      [] OTHER -> TRUE

\* `${v}`
ToText(v) ==
    CASE v.t = "str" -> v.s
      [] v.t = "undefined" -> << "u", "n", "d", "e", "f", "i", "n", "e", "d" >>
      [] v.t = "null" -> << "n", "u", "l", "l" >>
      [] v.t = "bool" -> IF v.b THEN << "t", "r", "u", "e" >>
                         ELSE << "f", "a", "l", "s", "e" >>
      [] v.t = "num" -> Digits(v.n)

\* An inbound text frame: text that is not JSON, or the text of a JSON value.
BadText == [syntax |-> FALSE]
TextOf(v) == [syntax |-> TRUE, value |-> v]

\* JSON.parse(raw) throws SyntaxError on text that is not JSON
ParseThrows(raw) == ~raw.syntax
JsonParse(raw) == raw.value

-----------------------------------------------------------------------------
(* renderEvent, app.js:125-150 *)

TitleName == << "t", "i", "t", "l", "e" >>
Untitled == << "(", "u", "n", "t", "i", "t", "l", "e", "d", ")" >>
Unknown == << "u", "n", "k", "n", "o", "w", "n" >>

Event(hasTags, tags, hasContent, content, hasPubkey, pubkey, createdAt) ==
    [hasTags |-> hasTags, tags |-> tags, hasContent |-> hasContent,
     content |-> content, hasPubkey |-> hasPubkey, pubkey |-> pubkey,
     created_at |-> createdAt]

\* a value that is not an object has no properties
NoProps == Event(FALSE, << >>, FALSE, << >>, FALSE, << >>, 0)

\* evt.tags throws TypeError when evt is null or undefined
RenderThrows(evt) == evt.t \in {"null", "undefined"}

PropsOf(evt) == IF evt.t = "event" THEN evt.e ELSE NoProps

\* a search that keeps the last entry named title
RECURSIVE FindTitleTagLast(_)
FindTitleTagLast(tags) ==
    IF tags = << >> THEN << >>
    ELSE IF FindTitleTagLast(Tail(tags)) # << >> THEN FindTitleTagLast(Tail(tags))
    ELSE IF Len(Head(tags)) >= 1 /\ Head(tags)[1] = TitleName THEN << Head(tags) >>
    ELSE << >>

\* tags.find(t => t[0] === 'title'): the first such entry, << >> for none
RECURSIVE FindTitleTag(_)
FindTitleTag(tags) ==
    IF tags = << >> THEN << >>
    ELSE IF Len(Head(tags)) >= 1 /\ Head(tags)[1] = TitleName THEN << Head(tags) >>
    ELSE FindTitleTag(Tail(tags))

\* app.js:129-130: titleTag?.[1] || ''
TagTitle(e) ==
    LET found == IF e.hasTags THEN FindTitleTag(e.tags) ELSE << >>
    IN  IF found # << >> /\ Len(found[1]) >= 2 THEN found[1][2] ELSE << >>

\* app.js:131
TrimmedContent(e) == Trim(IF e.hasContent THEN e.content ELSE << >>)

\* lines.find(line => line.trim().length) || ''
RECURSIVE FindLine(_)
FindLine(lines) ==
    IF lines = << >> THEN << >>
    ELSE IF Len(Trim(Head(lines))) # 0 THEN Head(lines)
    ELSE FindLine(Tail(lines))

\* a first line that is not trimmed
FirstLineUntrimmed(content) == FindLine(SplitLines(content))

\* app.js:133
FirstLine(content) == Trim(FindLine(SplitLines(content)))

\* app.js:130-135
DeriveTitle(e) ==
    IF TagTitle(e) # << >> THEN TagTitle(e)
    ELSE IF FirstLine(TrimmedContent(e)) # << >> THEN FirstLine(TrimmedContent(e))
    ELSE Untitled

\* a body whose remainder is not trimmed
DeriveBodyUntrimmed(content, title) ==
    IF StartsWith(content, title) THEN SliceFrom(content, Len(title)) ELSE content

\* app.js:137
DeriveBody(content, title) ==
    IF StartsWith(content, title) THEN Trim(SliceFrom(content, Len(title)))
    ELSE content

\* app.js:140
AuthorDisplay(e) ==
    IF e.hasPubkey /\ SliceTo(e.pubkey, 12) # << >> THEN SliceTo(e.pubkey, 12)
    ELSE Unknown

\* app.js:139, in milliseconds
Timestamp(e) == e.created_at * 1000

\* the record renderEvent appends to the list
Project(e) ==
    [title |-> DeriveTitle(e),
     body |-> DeriveBody(TrimmedContent(e), DeriveTitle(e)),
     authorDisplay |-> AuthorDisplay(e),
     timestamp |-> Timestamp(e)]

-----------------------------------------------------------------------------
(* handleMessage, app.js:96-119 *)

StReceivedAll == Status(<< "received all results" >>, "ok")
StRejected(msg) == Status(<< "relay rejected: " >> \o ToText(msg), "warn")
StNotice(msg) == Status(<< "relay notice: " >> \o ToText(msg), "warn")

TypEvent == << "E", "V", "E", "N", "T" >>
TypEose == << "E", "O", "S", "E" >>
TypOk == << "O", "K" >>
TypNotice == << "N", "O", "T", "I", "C", "E" >>

\* What one call of handleMessage(raw) does:
\*   threw  - it ended with an uncaught exception
\*   render - << evt >> when renderEvent(evt) appended a record, else << >>
\*   status - << s >> when it called setStatus, else << >>
Effect(threw, render, st) == [threw |-> threw, render |-> render, status |-> st]

Dropped == Effect(FALSE, << >>, << >>)
Threw == Effect(TRUE, << >>, << >>)

\* a test of accepted with the negation lost
OkRejectedInverted(data) == Truthy(Index(data, 2))

\* app.js:114-115: !accepted
OkRejected(data) == ~Truthy(Index(data, 2))

\* app.js:105-118, on the parsed data
Dispatch(data) ==
    IF IndexThrows(data) THEN Threw
    ELSE LET typ == Index(data, 0) IN
         IF IsStr(typ, TypEvent) THEN
              IF RenderThrows(Index(data, 2)) THEN Threw
              ELSE Effect(FALSE, << Index(data, 2) >>, << >>)
         ELSE IF IsStr(typ, TypEose) THEN Effect(FALSE, << >>, << StReceivedAll >>)
         ELSE IF IsStr(typ, TypOk) THEN
              IF ~Iterable(data) THEN Threw
              ELSE IF OkRejected(data)
                   THEN Effect(FALSE, << >>, << StRejected(Index(data, 3)) >>)
                   ELSE Dropped
         ELSE IF IsStr(typ, TypNotice)
              THEN Effect(FALSE, << >>, << StNotice(Index(data, 1)) >>)
         ELSE Dropped

\* app.js:97-103
HandleMessage(raw) == IF ParseThrows(raw) THEN Dropped ELSE Dispatch(JsonParse(raw))

\* ws.onmessage, app.js:72-74: a transport delivers messages only while OPEN.
OnMessage(t, raw) ==
    /\ conn[t] = "OPEN"
    /\ LET eff == HandleMessage(raw) IN
       /\ failure' = eff.threw
       /\ IF eff.render # << >>
          THEN /\ list' = Append(list, Project(PropsOf(eff.render[1])))
               /\ lastEvt' = eff.render[1]
          ELSE UNCHANGED << list, lastEvt >>
       /\ status' = IF eff.status # << >> THEN eff.status[1] ELSE status
    /\ UNCHANGED << ws, isOpen, currentSubId, conn, sent, uiConn,
                    lifecycle >>

-----------------------------------------------------------------------------
(* The inbound frames tried *)

Foo == << "F", "o", "o" >>
FooBar == << "F", "o", "o", NL, "b", "a", "r" >>
RateLimited == << "r", "a", "t", "e", " ", "l", "i", "m", "i", "t", "e", "d" >>

EvFoo == JEvent(Event(TRUE, << << TitleName, Foo >> >>, TRUE, FooBar, TRUE, << "p" >>, 1))
EvEmpty == JEvent(Event(FALSE, << >>, FALSE, << >>, FALSE, << >>, 0))

Events == { EvFoo, EvEmpty }

\* texts that are not a JSON array with a string first, and the empty array
MalformedFrames ==
    { BadText, TextOf(JNull), TextOf(JNumber(5)), TextOf(JStr(TypEvent)),
      TextOf(JObj([k \in {"a"} |-> JNull])),
      TextOf(JObj([k \in {"0", "2"} |-> IF k = "0" THEN JStr(TypEvent) ELSE EvFoo])),
      TextOf(JObj([k \in {"0"} |-> JStr(TypOk)])),
      TextOf(JArr(<< >>)) }

EventFrame(id, e) == TextOf(JArr(<< JStr(TypEvent), JSub(id), e >>))

EventFrames(evs) == { EventFrame(id, e) : id \in SubIds, e \in evs }

StatusFrames ==
    { TextOf(JArr(<< JStr(TypEose), JSub(id) >>)) : id \in SubIds }
    \cup { TextOf(JArr(<< JStr(TypOk), JStr(<< "e" >>), JBool(b), JStr(RateLimited) >>)) :
             b \in BOOLEAN }
    \cup { TextOf(JArr(<< JStr(TypNotice), JStr(<< "n" >>) >>)),
           TextOf(JArr(<< JStr(TypOk) >>)),
           TextOf(JArr(<< JStr(TypNotice) >>)) }

OtherFrames ==
    { TextOf(JArr(<< JStr(TypEvent) >>)),
      TextOf(JArr(<< JStr(<< "A", "U", "T", "H" >>), JStr(<< "c" >>) >>)) }

Frames == MalformedFrames \cup EventFrames(Events) \cup StatusFrames \cup OtherFrames

-----------------------------------------------------------------------------
(* The session as the specification names it (SessionState), read from     *)
(* isOpen and the last lifecycle status the code reported.                 *)

SessionState ==
    IF isOpen THEN "Open"
    ELSE IF lifecycle = "idle" THEN "Idle"
    ELSE IF lifecycle = "connecting" THEN "Connecting"
    ELSE "Closed"

-----------------------------------------------------------------------------
(* The whole session *)

Next ==
    \/ \E value \in Urls : Connect(value)
    \/ \E t \in Conns : OnOpen(t)
    \/ \E t \in Conns : OnError(t)
    \/ \E t \in Conns : OnClose(t)
    \/ Disconnect
    \/ \E form \in Forms, id \in SubIds : SubmitQuery(form, id)
    \/ /\ Len(list) < MaxList
       /\ \E t \in Conns, raw \in Frames : OnMessage(t, raw)

Spec == Init /\ [][Next]_vars

-----------------------------------------------------------------------------
(* The first request of a session, for every form content *)

NextFilter ==
    \/ \E value \in Urls : Connect(value)
    \/ \E t \in Conns : OnOpen(t)
    \/ \E t \in Conns : OnError(t)
    \/ \E t \in Conns : OnClose(t)
    \/ Disconnect
    \/ /\ TotalReq = 0
       /\ \E form \in AllForms, id \in SubIds : SubmitQuery(form, id)

SpecFilter == Init /\ [][NextFilter]_vars

-----------------------------------------------------------------------------
(* The projection of the first event of a session, for every event below *)

Alphabet == { " ", NL, "a", "b" }

HelloWorld == << " ", " ", NL, "H", "e", "l", "l", "o", NL, "w", "o", "r", "l", "d" >>

Contents == StringsUpTo(Alphabet, MaxLen) \cup { FooBar, HelloWorld }

TagLists ==
    { << >>,
      << << TitleName >> >>,
      << << TitleName, << >> >> >>,
      << << TitleName, << "a" >> >> >>,
      << << TitleName, << "a", " " >> >> >>,
      << << TitleName, Foo >> >>,
      << << >>, << << "d" >>, << "a" >> >>, << TitleName, << "b" >> >> >>,
      << << TitleName, << "a" >> >>, << TitleName, << "b" >> >> >>,
      << << TitleName, << >> >>, << TitleName, << "b" >> >> >> }

Pubkeys == { << >>, << "k", "e", "y" >>,
             << "0", "1", "2", "3", "4", "5", "6", "7", "8", "9", "a", "b", "c" >> }

AllEvents ==
    { JEvent(Event(TRUE, tags, TRUE, c, FALSE, << >>, 0)) : tags \in TagLists, c \in Contents }
    \cup { JEvent(Event(FALSE, << >>, hc, c, FALSE, << >>, 0)) :
             hc \in BOOLEAN, c \in { << >>, << "a", NL, "b" >> } }
    \cup { JEvent(Event(FALSE, << >>, TRUE, << "a" >>, TRUE, k, 7)) : k \in Pubkeys }
    \cup { JNumber(5), EvFoo, EvEmpty }

NextProject ==
    \/ Connect(<< "w" >>)
    \/ \E t \in Conns : OnOpen(t)
    \/ /\ list = << >>
       /\ \E t \in Conns, e \in AllEvents : OnMessage(t, EventFrame(1, e))

SpecProject == Init /\ [][NextProject]_vars

-----------------------------------------------------------------------------
(* Claims *)

\* the part of the state a rejected call must leave alone
SessionUnchanged ==
    /\ ws' = ws
    /\ conn' = conn
    /\ isOpen' = isOpen
    /\ SessionState' = SessionState
    /\ currentSubId' = currentSubId

\* C1: in every session state other than Open (Idle, Connecting, Closed), a
\* subscribe call reports "not connected", raises nothing, writes no frame
\* on any transport and leaves the connection state, the active
\* subscription id and the display list as they were.
C1_SubscribeRejectedUnlessOpen ==
    [][\A form \in Forms, id \in SubIds :
         (SessionState # "Open" /\ SubmitQuery(form, id)) =>
            /\ status' = StNotConnected
            /\ ~failure'
            /\ sent' = sent
            /\ list' = list
            /\ SessionUnchanged]_vars

\* C1 witness: a subscribe was rejected on a session closed by disconnect
\* after a request, with a record still displayed.
C1_Witness ==
    /\ status = StNotConnected
    /\ SessionState = "Closed"
    /\ ws # Null
    /\ list # << >>
    /\ sent[ws] # << >>

\* the state disconnect() leaves
Disconnected ==
    /\ SessionState = "Closed"
    /\ ~isOpen
    /\ currentSubId = Null
    /\ status = StDisconnected
    /\ ~failure

\* C2: disconnect() can be called in every state, never fails, and ends
\* with the session Closed and no active subscription id; called again
\* right after, it changes nothing and writes no frame.
C2_DisconnectTotalIdempotent ==
    /\ [](ENABLED Disconnect)
    /\ [][Disconnect => (Disconnected' /\ (Disconnected => UNCHANGED vars))]_vars

\* C2 witness: disconnect() on an Open session with an active subscription
\* has written the CLOSE frame, asked the transport to close and cleared
\* the subscription id.
C2_Witness ==
    /\ Disconnected
    /\ ws # Null
    /\ conn[ws] = "CLOSING"
    /\ sent[ws] # << >>
    /\ sent[ws][Len(sent[ws])][1] = "CLOSE"

\* C3: once the session is Closed, no notification of the held connection
\* and no subscribe or disconnect call makes it Open again (only a new
\* connect, which replaces the held transport, leads on).
C3_ClosedIsTerminal ==
    [][(/\ SessionState = "Closed"
        /\ ws' = ws
        /\ \A t \in Conns \ {ws} : conn'[t] = conn[t])
       => SessionState' # "Open"]_vars

\* C4: a malformed inbound text frame (not JSON, JSON that is not an array,
\* or the empty array), delivered to an Open session, raises no failure,
\* adds no record and leaves the session Open with its subscription id.
C4_MalformedFrameDropped ==
    [][\A t \in Conns, raw \in MalformedFrames :
         (SessionState = "Open" /\ OnMessage(t, raw)) =>
            /\ ~failure'
            /\ list' = list
            /\ SessionState' = "Open"
            /\ currentSubId' = currentSubId]_vars

LastOf(seq) == seq[Len(seq)]

\* the frames of transport t grew by exactly frame f
WroteOnly(t, f) ==
    /\ sent'[t] = Append(sent[t], f)
    /\ \A u \in Conns \ {t} : sent'[u] = sent[u]

\* C5: when the last frame written on an Open session is the REQ of the
\* active subscription, a further successful subscribe writes exactly one
\* more frame, a REQ (no CLOSE before it), and the stored subscription id
\* is then the id that REQ carries.
C5_SecondSubscribeReplaces ==
    [][\A form \in Forms, id \in SubIds :
         (/\ SessionState = "Open"
          /\ currentSubId # Null
          /\ sent[ws] # << >>
          /\ LastOf(sent[ws])[1] = "REQ"
          /\ LastOf(sent[ws])[2] = currentSubId
          /\ SubmitQuery(form, id)
          /\ status' = StRequested(form))
         => (/\ WroteOnly(ws, LastOf(sent'[ws]))
             /\ LastOf(sent'[ws])[1] = "REQ"
             /\ LastOf(sent'[ws])[2] = id
             /\ currentSubId' = id)]_vars

\* C5 witness: two REQ frames in a row with different ids on the held
\* transport, the second id being the stored one.
C5_Witness ==
    /\ SessionState = "Open"
    /\ Len(sent[ws]) = 2
    /\ sent[ws][1][1] = "REQ"
    /\ sent[ws][2][1] = "REQ"
    /\ sent[ws][1][2] # sent[ws][2][2]
    /\ currentSubId = sent[ws][2][2]

\* the text denotes an integer that is at least min
DenotesIntegerFrom(text, min) ==
    /\ ~NumberOf(text).nan
    /\ \E n \in min..9 : NumberOf(text).tenths = 10 * n

\* f is ["REQ", id, filter] with the filter the form asks for
IsRequestFor(f, id, form) ==
    LET n == Trim(form.tagName)
        v == Trim(form.tagValue)
        tagged == n # << >> /\ v # << >>
        filter == f[3]
    IN  /\ Len(f) = 3
        /\ f[1] = "REQ"
        /\ f[2] = id
        /\ DOMAIN filter =
              {KeyKinds, KeyLimit} \cup (IF tagged THEN { << "#" >> \o n } ELSE {})
        /\ Len(filter[KeyKinds]) = 1
        /\ filter[KeyKinds][1] >= 0
        /\ 10 * filter[KeyKinds][1] = NumberOf(form.kind).tenths
        /\ filter[KeyLimit] >= 1
        /\ 10 * filter[KeyLimit] = NumberOf(form.limit).tenths
        /\ tagged => filter[<< "#" >> \o n] = << v >>

\* C6: a subscribe writes nothing when the kind text is not an integer >= 0
\* or the limit text not an integer >= 1; what it writes otherwise is one
\* frame ["REQ", id, filter], id being the stored subscription id and filter
\* having exactly kinds = [kind] and limit, plus "#"+name = [value] if and
\* only if a tag name and a tag value (both trimmed) are non-empty.
C6_RequestShape ==
    [][\A form \in AllForms, id \in SubIds :
         SubmitQuery(form, id) =>
            /\ ~(DenotesIntegerFrom(form.kind, 0) /\ DenotesIntegerFrom(form.limit, 1))
                  => sent' = sent
            /\ sent' # sent =>
                  /\ WroteOnly(ws, LastOf(sent'[ws]))
                  /\ IsRequestFor(LastOf(sent'[ws]), currentSubId', form)]_vars

\* C6 witness: a REQ frame whose filter has the tag key next to kinds and
\* limit.
C6_Witness ==
    \E t \in Conns :
        /\ sent[t] # << >>
        /\ sent[t][1][1] = "REQ"
        /\ DOMAIN sent[t][1][3] = {KeyKinds, KeyLimit, << "#", "t" >>}
        /\ sent[t][1][3][<< "#", "t" >>] = << << "t" >> >>

\* a record was projected from the event last given to renderEvent
Projected == list # << >> /\ lastEvt.t = "event"

EvtTags == IF lastEvt.e.hasTags THEN lastEvt.e.tags ELSE << >>
EvtContent == IF lastEvt.e.hasContent THEN lastEvt.e.content ELSE << >>

\* positions of the tag entries whose first element is "title"
TitleEntries == { i \in 1..Len(EvtTags) : Len(EvtTags[i]) >= 1 /\ EvtTags[i][1] = TitleName }

Least(S) == CHOOSE i \in S : \A j \in S : i <= j

FirstTitleEntry == EvtTags[Least(TitleEntries)]

\* the title the content gives: its first line that is not blank, trimmed,
\* or the placeholder
NonBlankLines(c) == { i \in 1..Len(SplitLines(c)) : Trim(SplitLines(c)[i]) # << >> }

ContentTitle(c) ==
    IF NonBlankLines(c) = {} THEN Untitled
    ELSE Trim(SplitLines(c)[Least(NonBlankLines(c))])

\* C7 as stated: with a tag entry named title that has a second element, the
\* title is that element, whatever it is (the empty string too).
C7_TitleIsTagValue ==
    (Projected /\ TitleEntries # {} /\ Len(FirstTitleEntry) >= 2)
        => LastOf(list).title = FirstTitleEntry[2]

\* C7 amended: with a tag entry named title, the title is the second element
\* of the first such entry when that element is a non-empty string; when it
\* is empty or missing, the title is the one the content gives.
C7_TitleIsNonEmptyTagValue ==
    (Projected /\ TitleEntries # {})
        => IF Len(FirstTitleEntry) >= 2 /\ FirstTitleEntry[2] # << >>
           THEN LastOf(list).title = FirstTitleEntry[2]
           ELSE LastOf(list).title = ContentTitle(EvtContent)

\* C7 witness: an event with two title entries, the first with an empty
\* value, was projected: the title came from the content.
C7_Witness ==
    /\ Projected
    /\ EvtTags = << << TitleName, << >> >>, << TitleName, << "b" >> >> >>
    /\ EvtContent = << "a", NL, "b" >>
    /\ LastOf(list).title = << "a" >>

\* C8: with no tag entry named title, the title is the first line of the
\* content whose trimmed form is non-empty, trimmed, and the trimmed content
\* starts with it; without such a line the title is "(untitled)".
C8_TitleFromContent ==
    (Projected /\ TitleEntries = {})
        => /\ LastOf(list).title = ContentTitle(EvtContent)
           /\ NonBlankLines(EvtContent) # {}
                 => StartsWith(Trim(EvtContent), LastOf(list).title)
           /\ NonBlankLines(EvtContent) = {} => LastOf(list).title = Untitled

\* C8 witness: the title of "  \nHello\nworld" without tags is "Hello".
C8_Witness ==
    /\ Projected
    /\ TitleEntries = {}
    /\ EvtContent = HelloWorld
    /\ LastOf(list).title = << "H", "e", "l", "l", "o" >>

\* C9: the body is the trimmed content without the title at its start, the
\* remainder trimmed, when the trimmed content starts with the title, and
\* the trimmed content otherwise; an event without content and title tag
\* has title "(untitled)" and body "", and title tag "Foo" with content
\* "Foo\nbar" gives body "bar".
C9_BodyDerivation ==
    /\ Projected =>
          LET r == LastOf(list)
              c == Trim(EvtContent)
          IN  IF Len(r.title) <= Len(c) /\ \A i \in 1..Len(r.title) : c[i] = r.title[i]
              THEN \E k \in 0..Len(c) :
                      /\ k = Len(r.title)
                      /\ r.body = Trim([i \in 1..(Len(c) - k) |-> c[k + i]])
              ELSE r.body = c
    /\ (list # << >> /\ lastEvt = EvEmpty)
          => (LastOf(list).title = Untitled /\ LastOf(list).body = << >>)
    /\ (list # << >> /\ lastEvt = EvFoo)
          => (LastOf(list).title = Foo /\ LastOf(list).body = << "b", "a", "r" >>)

\* C9 witness: title tag "Foo" and content "Foo\nbar" were projected to the
\* body "bar".
C9_Witness ==
    /\ list # << >>
    /\ lastEvt = EvFoo
    /\ LastOf(list).body = << "b", "a", "r" >>

\* the text ends with the characters of s
EndsWith(text, s) ==
    Len(s) <= Len(text) /\ SubSeq(text, Len(text) - Len(s) + 1, Len(text)) = s

\* the status an EOSE, OK or NOTICE frame with the protocol's fields gives
StatusSignal(d) ==
    CASE d[1].s = TypEose -> status' = Status(<< "received all results" >>, "ok")
      [] d[1].s = TypOk /\ Len(d) = 4 /\ d[3] = JBool(FALSE) ->
            status'.cls = "warn" /\ EndsWith(status'.text, d[4].s)
      [] d[1].s = TypOk /\ Len(d) = 4 /\ d[3] = JBool(TRUE) -> status' = status
      [] d[1].s = TypNotice /\ Len(d) = 2 ->
            status'.cls = "warn" /\ EndsWith(status'.text, d[2].s)
      [] OTHER -> TRUE

\* C10: an EOSE, OK or NOTICE frame gives only a status signal ("received
\* all results"; a warning with the relay's message for OK false; nothing
\* for OK true; a warning with the notice text): no record is appended, no
\* frame written, connection state and subscription id stay.
C10_StatusFramesOnlySignal ==
    [][\A t \in Conns, raw \in StatusFrames :
         OnMessage(t, raw) =>
            /\ StatusSignal(raw.value.a)
            /\ ~failure'
            /\ list' = list
            /\ sent' = sent
            /\ uiConn' = uiConn
            /\ SessionUnchanged]_vars

\* C10 witness: the relay's rejection "rate limited" is shown as a warning
\* on an Open session with an active subscription and a displayed record.
C10_Witness ==
    /\ status = Status(<< "relay rejected: " >> \o RateLimited, "warn")
    /\ SessionState = "Open"
    /\ currentSubId # Null
    /\ list # << >>

\* C11: connect with an empty address (empty once trimmed), or with an
\* address the transport's constructor rejects, only reports the failure:
\* the session state, the held transport, every transport's state, the
\* active subscription id, the frames written and the display list are as
\* before the call, so an Idle session stays Idle.
C11_FailedConnectChangesNothing ==
    [][\A value \in Urls :
         (Connect(value) /\ (Trim(value) = << >> \/ WebSocketThrows(Trim(value)))) =>
            /\ status' = (IF Trim(value) = << >> THEN StEnterUrl ELSE StInvalidUrl)
            /\ ~failure'
            /\ sent' = sent
            /\ list' = list
            /\ uiConn' = uiConn
            /\ SessionUnchanged]_vars

\* C11 witness: a malformed address was rejected on a session that holds a
\* transport and a subscription id from an earlier connection.
C11_Witness ==
    /\ status = StInvalidUrl
    /\ ws # Null
    /\ currentSubId # Null

\* C12: disconnect() on an Open session with an active subscription id s
\* writes exactly one frame, ["CLOSE", s], on the held transport, and the
\* transport is asked to close after it; with no active subscription, or
\* on a session that is not Open, disconnect() writes no frame.
C12_DisconnectSendsOneClose ==
    [][Disconnect =>
         IF SessionState = "Open" /\ currentSubId # Null
         THEN /\ WroteOnly(ws, CloseFrame(currentSubId))
              /\ conn'[ws] \in {"CLOSING", "CLOSED"}
         ELSE sent' = sent]_vars

\* C13: disconnect() on an Open session always asks the held transport to
\* close, also when the transport rejects the write of the CLOSE frame:
\* when disconnect() returns, the held transport is closing or closed,
\* and so can deliver no further EVENT frame to the display list.
C13_DisconnectAlwaysCloses ==
    [][(Disconnect /\ SessionState = "Open") =>
         /\ conn'[ws] \in {"CLOSING", "CLOSED"}
         /\ ~failure']_vars

\* C14: when the transport rejects the write of the REQ frame, subscribe
\* reports the send failure and changes no session state: the connection
\* state and the active subscription id are as before the call, and no
\* frame is written.
C14_SendFailureChangesNothing ==
    [][\A form \in Forms, id \in SubIds :
         (/\ SubmitQuery(form, id)
          /\ ~NotConnected
          /\ ~InvalidKind(NumberOf(form.kind))
          /\ ~InvalidLimit(NumberOf(form.limit))
          /\ SendThrows(ws)) =>
            /\ status' = StSendFailed
            /\ ~failure'
            /\ sent' = sent
            /\ SessionUnchanged]_vars

\* C15: an error notification from a transport moves a Connecting or Open
\* session to Closed, as a close notification does, so that a subscribe
\* called next is rejected as not connected.
C15_ErrorClosesSession ==
    [][\A t \in Conns :
         (OnError(t) /\ SessionState \in {"Connecting", "Open"}) =>
            /\ SessionState' = "Closed"
            /\ NotConnected']_vars

\* a frame ["EVENT", subscriptionId, event]
IsEventFrame(raw) ==
    /\ raw.syntax
    /\ raw.value.t = "arr"
    /\ Len(raw.value.a) = 3
    /\ IsStr(raw.value.a[1], TypEvent)

\* the frames of the wire protocol, and frames with another first element
ProtocolFrames ==
    { raw \in Frames \ MalformedFrames :
        IsStr(Index(raw.value, 0), TypEvent) => IsEventFrame(raw) }

\* C16: the display list is the records of the EVENT frames received
\* since the last subscribe that issued a request, one per frame, in
\* arrival order.  Step by step, for the frames of the protocol: an EVENT
\* frame appends its record, a subscribe that writes a request empties
\* the list, and nothing else (a rejected or invalid subscribe,
\* disconnect, connect, a notification, a frame that is not an EVENT)
\* changes the list.
C16_ListIsEventsSinceRequest ==
    [][/\ \A t \in Conns, raw \in ProtocolFrames :
            OnMessage(t, raw) =>
                IF IsEventFrame(raw)
                THEN /\ ~RenderThrows(Index(raw.value, 2))
                     /\ list' = Append(list, Project(PropsOf(Index(raw.value, 2))))
                ELSE list' = list
       /\ \A form \in Forms, id \in SubIds :
            SubmitQuery(form, id) =>
                IF sent' # sent THEN list' = << >> ELSE list' = list
       /\ (\/ Disconnect
           \/ \E value \in Urls : Connect(value)
           \/ \E t \in Conns : OnOpen(t) \/ OnError(t) \/ OnClose(t))
            => list' = list]_vars

\* C17: a subscription is active only while its connection lasts: in
\* every reachable state where the session is not Open, whether after a
\* close notification or after disconnect(), no subscription id is held.
C17_NoSubscriptionUnlessOpen ==
    SessionState # "Open" => currentSubId = Null

\* C18: under every interleaving of connect, disconnect and transport
\* notifications, the session reports Open only while the transport it
\* holds is open (or has failed and its close notification is still to
\* come), and an open or close notification of a transport that a later
\* connect has replaced does not change the session state.
C18_OpenMeansHeldTransportOpen ==
    /\ [](SessionState = "Open" => (ws # Null /\ conn[ws] \in {"OPEN", "CLOSING"}))
    /\ [][\A t \in Conns \ {ws} :
            (OnOpen(t) \/ OnClose(t)) => SessionState' = SessionState]_vars

\* C19: every CLOSE frame written on a connection names a subscription id
\* that an earlier REQ frame on the same connection carried; so after a
\* close by the relay and a new connect, a disconnect() with no subscribe
\* in between writes no CLOSE frame.
C19_CloseNamesRequestedId ==
    \A t \in Conns : \A i \in 1..Len(sent[t]) :
        sent[t][i][1] = "CLOSE" =>
            \E j \in 1..(i - 1) :
                IsReq(sent[t][j]) /\ sent[t][j][2] = sent[t][i][2]

\* C20: a record is added to the display list only by an EVENT frame whose
\* subscription id is the session's active subscription id at the time
\* the frame arrives; an EVENT frame of a superseded subscription, or one
\* arriving while no subscription is active, adds nothing.
C20_RecordsOfActiveSubscription ==
    [][\A t \in Conns, id \in SubIds, e \in Events :
         OnMessage(t, EventFrame(id, e)) =>
            IF currentSubId = id
            THEN list' = Append(list, Project(PropsOf(e)))
            ELSE list' = list]_vars

=============================================================================
